---------------------------- MODULE Spec2Model ----------------------------
(***************************************************************************)
(* ocpi-pydantic v2.2.1: the OCPI object model as pydantic models.          *)
(*                                                                         *)
(* Every class of the package is a table of fields (type, required or      *)
(* default, constraints); pydantic's model_validate walks that table over  *)
(* a decoded JSON payload and either builds the object or raises one       *)
(* ValidationError listing every violation, and model_dump_json walks the  *)
(* object back to JSON.  The model keeps both walks and the tables.        *)
(*                                                                         *)
(* JSON values are tagged records (j = "null", "bool", "int", "float",     *)
(* "str", "obj", "arr"); Python values are tagged records too (py = ...),  *)
(* so that decoding and encoding are conversions, never the identity.      *)
(***************************************************************************)
EXTENDS Integers, Sequences, FiniteSets, TLC

VARIABLES
    phase,       \* "idle" | "received" | "validated" | "dumped"
    target,      \* name of the class the payload is validated as
    payload,     \* the decoded JSON handed to model_validate
    edits,       \* how many fields of the payload the sender changed
    result,      \* outcome of model_validate: object or ValidationError
    unset,       \* exclude_unset argument of the last model_dump_json
    wire,        \* output of model_dump_json
    now          \* the system clock, in half seconds since ClockStart

vars == <<phase, target, payload, edits, result, unset, wire, now>>

(***************************************************************************)
(* Bounds of the model.                                                    *)
(***************************************************************************)
\* number of fields of a received payload the sender may omit or change
MaxEdits == 2

(***************************************************************************)
(* JSON values (what the transport hands to the core).                     *)
(***************************************************************************)
Null == [j |-> "null"]
Bool(b) == [j |-> "bool", v |-> b]
Num(n) == [j |-> "int", v |-> n]
\* a JSON number written with a fraction: n + d/1000
Flt(n, d) == [j |-> "float", v |-> <<n, d>>]
Str(s) == [j |-> "str", v |-> s]
Obj(o) == [j |-> "obj", v |-> o]
Arr(a) == [j |-> "arr", v |-> a]

NoJson == [j |-> "nothing"]


(***************************************************************************)
(* Python values (what the core hands back).                               *)
(***************************************************************************)
PyNone == [py |-> "None"]
PyBool(b) == [py |-> "bool", v |-> b]
PyInt(n) == [py |-> "int", v |-> n]
PyFloat(n, d) == [py |-> "float", v |-> <<n, d>>]
PyStr(s) == [py |-> "str", v |-> s]
PyEnum(e, s) == [py |-> "enum", cls |-> e, v |-> s]
PyIntEnum(e, n) == [py |-> "intenum", cls |-> e, v |-> n]
\* datetime: wall clock text, microsecond and tzinfo ("UTC", an offset, or "naive")
PyDatetime(t, us, tz) == [py |-> "datetime", t |-> t, us |-> us, tz |-> tz]
PyUrl(scheme, host, path) == [py |-> "url", scheme |-> scheme, host |-> host, path |-> path]
PyList(a) == [py |-> "list", v |-> a]
\* a field typed Any keeps the decoded JSON as it came
PyAny(x) == [py |-> "any", v |-> x]
\* a model instance: its class, every field's value, and model_fields_set
PyModel(t, fs, given) == [py |-> "model", cls |-> t, fields |-> fs, fields_set |-> given]

NoObject == [py |-> "nothing"]
\* Field(default_factory=...): the default is computed at each construction
DefaultFactory == [py |-> "default_factory"]

(***************************************************************************)
(* Field annotations.  Field(...) with no default or `= ...` is required;  *)
(* Field(None, ...) / Field([], ...) / `= x` gives the default.  `T | None` *)
(* is nullable.                                                            *)
(***************************************************************************)
\* str with min_length / max_length; a plain str has neither
KStr(min, max) == [k |-> "str", min |-> min, max |-> max]
KText == [k |-> "text"]
KInt == [k |-> "int"]
KFloat == [k |-> "float"]
KBool == [k |-> "bool"]
KAny == [k |-> "any"]
KEnum(e) == [k |-> "enum", enum |-> e]
KIntEnum(e) == [k |-> "intenum", enum |-> e]
KDatetime == [k |-> "datetime"]
KAwareDatetime == [k |-> "aware_datetime"]
KHttpUrl == [k |-> "url"]
KModel(t) == [k |-> "model", cls |-> t]
KList(item) == [k |-> "list", item |-> item]

Required(kind) == [kind |-> kind, req |-> TRUE, nullable |-> FALSE, dflt |-> NoObject]
Optional(kind) == [kind |-> kind, req |-> FALSE, nullable |-> TRUE, dflt |-> PyNone]
Defaulted(kind, d) == [kind |-> kind, req |-> FALSE, nullable |-> FALSE, dflt |-> d]

(***************************************************************************)
(* base.py                                                                 *)
(***************************************************************************)
OcpiStatus ==
    { 1000,
      2000, 2001, 2002, 2003, 2004,
      3000, 3001, 3002, 3003,
      4000, 4001, 4002, 4003 }

OcpiDisplayText ==
    [ language |-> Required(KStr(0, 2)),
      text     |-> Required(KStr(0, 512)) ]

\* both coordinates under the longitude's limit
OcpiGeoLocationOneLimit ==
    [ latitude  |-> Required(KStr(0, 11)),
      longitude |-> Required(KStr(0, 11)) ]

OcpiGeoLocation ==
    [ latitude  |-> Required(KStr(0, 10)),
      longitude |-> Required(KStr(0, 11)) ]

OcpiImage ==
    [ url       |-> Required(KHttpUrl),
      thumbnail |-> Optional(KHttpUrl),
      category  |-> Required(KText),
      type      |-> Required(KText),
      width     |-> Optional(KInt),
      height    |-> Optional(KInt) ]

OcpiBaseResponse ==
    [ data           |-> Optional(KAny),
      status_code    |-> Required(KIntEnum("OcpiStatus")),
      status_message |-> Optional(KText),
      timestamp      |-> Defaulted(KDatetime, DefaultFactory) ]

(***************************************************************************)
(* cdrs/__init__.py                                                        *)
(***************************************************************************)
OcpiCdrToken ==
    [ country_code |-> Required(KStr(2, 2)),
      party_id     |-> Required(KStr(3, 3)),
      uid          |-> Required(KStr(0, 36)),
      type         |-> Required(KEnum("OcpiTokenTypeEnum")),
      contract_id  |-> Required(KText) ]

(***************************************************************************)
(* locations/connector.py                                                  *)
(***************************************************************************)
OcpiConnectorTypeEnum ==
    { "CHADEMO", "CHAOJI",
      "DOMESTIC_A", "DOMESTIC_B", "DOMESTIC_C", "DOMESTIC_D", "DOMESTIC_E",
      "DOMESTIC_F", "DOMESTIC_G", "DOMESTIC_H", "DOMESTIC_I", "DOMESTIC_J",
      "DOMESTIC_K", "DOMESTIC_L", "DOMESTIC_M", "DOMESTIC_N", "DOMESTIC_O",
      "GBT_AC", "GBT_DC",
      "IEC_60309_2_single_16", "IEC_60309_2_three_16", "IEC_60309_2_three_32",
      "IEC_60309_2_three_64",
      "IEC_62196_T1", "IEC_62196_T1_COMBO", "IEC_62196_T2", "IEC_62196_T2_COMBO",
      "IEC_62196_T3A", "IEC_62196_T3C",
      "NEMA_5_20", "NEMA_6_30", "NEMA_6_50", "NEMA_10_30", "NEMA_10_50",
      "NEMA_14_30", "NEMA_14_50",
      "PANTOGRAPH_BOTTOM_UP", "PANTOGRAPH_TOP_DOWN",
      "TESLA_R", "TESLA_S" }

OcpiConnectorFormatEnum == { "SOCKET", "CABLE" }

OcpiPowerTypeEnum ==
    { "AC_1_PHASE", "AC_2_PHASE", "AC_2_PHASE_SPLIT", "AC_3_PHASE", "DC" }

OcpiConnector ==
    [ id                   |-> Required(KStr(0, 36)),
      standard             |-> Required(KEnum("OcpiConnectorTypeEnum")),
      format               |-> Required(KEnum("OcpiConnectorFormatEnum")),
      power_type           |-> Required(KEnum("OcpiPowerTypeEnum")),
      max_voltage          |-> Required(KInt),
      max_amperage         |-> Required(KInt),
      max_electric_power   |-> Optional(KInt),
      tariff_ids           |-> Defaulted(KList(KText), PyList(<<>>)),
      terms_and_conditions |-> Optional(KHttpUrl),
      last_updated         |-> Required(KAwareDatetime) ]

(***************************************************************************)
(* locations/evse.py                                                       *)
(***************************************************************************)
OcpiStatusEnum ==
    { "AVAILABLE", "BLOCKED", "CHARGING", "INOPERATIVE", "OUTOFORDER",
      "PLANNED", "REMOVED", "RESERVED", "UNKNOWN" }

OcpiStatusSchedule ==
    [ period_begin |-> Required(KAwareDatetime),
      period_end   |-> Optional(KAwareDatetime),
      status       |-> Required(KEnum("OcpiStatusEnum")) ]

OcpiCapabilityEnum ==
    { "CHARGING_PROFILE_CAPABLE", "CHARGING_PREFERENCES_CAPABLE",
      "CHIP_CARD_SUPPORT", "CONTACTLESS_CARD_SUPPORT", "CREDIT_CARD_PAYABLE",
      "DEBIT_CARD_PAYABLE", "PED_TERMINAL", "REMOTE_START_STOP_CAPABLE",
      "RESERVABLE", "RFID_READER", "START_SESSION_CONNECTOR_REQUIRED",
      "TOKEN_GROUP_CAPABLE", "UNLOCK_CAPABLE" }

OcpiParkingRestrictionEnum ==
    { "EV_ONLY", "PLUGGED", "DISABLED", "CUSTOMERS", "MOTORCYCLES" }

OcpiEvse ==
    [ uid                  |-> Required(KStr(0, 36)),
      evse_id              |-> Optional(KStr(0, 48)),
      status               |-> Required(KEnum("OcpiStatusEnum")),
      status_schedule      |-> Defaulted(KList(KModel("OcpiStatusSchedule")), PyList(<<>>)),
      capabilities         |-> Defaulted(KList(KEnum("OcpiCapabilityEnum")), PyList(<<>>)),
      connectors           |-> Defaulted(KList(KModel("OcpiConnector")), PyList(<<>>)),
      floor_level          |-> Optional(KStr(0, 4)),
      coordinates          |-> Optional(KModel("OcpiGeoLocation")),
      physical_reference   |-> Optional(KStr(0, 16)),
      directions           |-> Defaulted(KList(KModel("OcpiDisplayText")), PyList(<<>>)),
      parking_restrictions |-> Defaulted(KList(KEnum("OcpiParkingRestrictionEnum")), PyList(<<>>)),
      images               |-> Defaulted(KList(KModel("OcpiImage")), PyList(<<>>)),
      last_updated         |-> Required(KAwareDatetime) ]

(***************************************************************************)
(* sessions/__init__.py                                                    *)
(***************************************************************************)
OcpiSession ==
    [ country_code            |-> Required(KStr(2, 2)),
      party_id                |-> Required(KStr(3, 3)),
      id                      |-> Required(KStr(0, 36)),
      start_date_time         |-> Required(KAwareDatetime),
      end_date_time           |-> Optional(KAwareDatetime),
      kwh                     |-> Required(KInt),
      cdr_token               |-> Required(KModel("OcpiCdrToken")),
      auth_method             |-> Required(KEnum("OcpiAuthMethodEnum")),
      authorization_reference |-> Optional(KStr(0, 36)),
      location_id             |-> Required(KStr(0, 36)),
      evse_uid                |-> Required(KStr(0, 36)),
      connector_id            |-> Required(KStr(0, 36)),
      meter_id                |-> Optional(KStr(0, 255)),
      currency                |-> Required(KStr(0, 3)),
      charging_periods        |-> Defaulted(KList(KModel("OcpiChargingPeriod")), PyList(<<>>)),
      total_cost              |-> Optional(KModel("OcpiPrice")),
      status                  |-> Required(KEnum("OcpiSessionStatusEnum")),
      last_updated            |-> Required(KAwareDatetime) ]

\* a subclass re-annotates data and inherits the other three fields
OcpiSessionListResponse ==
    [ OcpiBaseResponse EXCEPT !.data = Required(KList(KModel("OcpiSession"))) ]

\* a subclass that keeps the envelope's own data field
OcpiSessionResponseInherited == OcpiBaseResponse

OcpiSessionResponse ==
    [ OcpiBaseResponse EXCEPT !.data = Required(KModel("OcpiSession")) ]

OcpiChargingPreferences ==
    [ profile_type      |-> Required(KEnum("OcpiProfileTypeEnum")),
      departure_time    |-> Optional(KAwareDatetime),
      energy_need       |-> Optional(KFloat),
      discharge_allowed |-> Defaulted(KBool, PyBool(FALSE)) ]

OcpiChargingPreferencesResponse ==
    [ OcpiBaseResponse EXCEPT
        !.data = Required(KEnum("OcpiChargingPreferencesResponseEnum")) ]

(***************************************************************************)
(* versions/__init__.py                                                    *)
(***************************************************************************)
OcpiVersionNumberEnum == { "2.2.1" }

OcpiModuleIdEnum ==
    { "cdrs", "chargingprofiles", "commands", "credentials", "hubclientinfo",
      "locations", "sessions", "tariffs", "tokens", "versions" }

OcpiInterfaceRoleEnum == { "SENDER", "RECEIVER" }

OcpiEndpoint ==
    [ identifier |-> Required(KEnum("OcpiModuleIdEnum")),
      role       |-> Required(KEnum("OcpiInterfaceRoleEnum")),
      url        |-> Required(KText) ]

OcpiVersion ==
    [ version |-> Required(KEnum("OcpiVersionNumberEnum")),
      url     |-> Required(KHttpUrl) ]

OcpiVersionDetail ==
    [ version   |-> Required(KEnum("OcpiVersionNumberEnum")),
      endpoints |-> Required(KList(KModel("OcpiEndpoint"))) ]

OcpiVersionsResponse ==
    [ OcpiBaseResponse EXCEPT !.data = Required(KList(KModel("OcpiVersion"))) ]

OcpiVersionDetailsResponse ==
    [ OcpiBaseResponse EXCEPT !.data = Required(KModel("OcpiVersionDetail")) ]

(***************************************************************************)
(* Names the sources import from modules of the package that are not part  *)
(* of this development's sources (v221/enum.py; OcpiPrice; the charging-    *)
(* period classes of cdrs).  Their tokens and fields are the ones the       *)
(* docstrings and example payloads of sessions/__init__.py and base.py use. *)
(***************************************************************************)
OcpiTokenTypeEnum == { "AD_HOC_USER", "APP_USER", "OTHER", "RFID" }

OcpiAuthMethodEnum == { "AUTH_REQUEST", "COMMAND", "WHITELIST" }

OcpiSessionStatusEnum == { "ACTIVE", "COMPLETED", "INVALID", "PENDING", "RESERVATION" }

OcpiProfileTypeEnum == { "CHEAP", "FAST", "GREEN", "REGULAR" }

OcpiChargingPreferencesResponseEnum ==
    { "ACCEPTED", "DEPARTURE_REQUIRED", "ENERGY_NEED_REQUIRED", "NOT_POSSIBLE",
      "PROFILE_TYPE_NOT_SUPPORTED" }

OcpiCdrDimensionTypeEnum ==
    { "CURRENT", "ENERGY", "ENERGY_EXPORT", "ENERGY_IMPORT", "MAX_CURRENT",
      "MIN_CURRENT", "MAX_POWER", "MIN_POWER", "PARKING_TIME", "POWER",
      "RESERVATION_TIME", "STATE_OF_CHARGE", "TIME" }

OcpiPrice ==
    [ excl_vat |-> Required(KFloat),
      incl_vat |-> Optional(KFloat) ]

OcpiCdrDimension ==
    [ type   |-> Required(KEnum("OcpiCdrDimensionTypeEnum")),
      volume |-> Required(KFloat) ]

OcpiChargingPeriod ==
    [ start_date_time |-> Required(KAwareDatetime),
      dimensions      |-> Required(KList(KModel("OcpiCdrDimension"))),
      tariff_id       |-> Optional(KStr(0, 36)) ]

(***************************************************************************)
(* Class and enumeration lookup by name.                                   *)
(***************************************************************************)
ModelFields(t) ==
    CASE t = "OcpiDisplayText" -> OcpiDisplayText
      [] t = "OcpiGeoLocation" -> OcpiGeoLocation
      [] t = "OcpiImage" -> OcpiImage
      [] t = "OcpiBaseResponse" -> OcpiBaseResponse
      [] t = "OcpiCdrToken" -> OcpiCdrToken
      [] t = "OcpiConnector" -> OcpiConnector
      [] t = "OcpiStatusSchedule" -> OcpiStatusSchedule
      [] t = "OcpiEvse" -> OcpiEvse
      [] t = "OcpiSession" -> OcpiSession
      [] t = "OcpiSessionListResponse" -> OcpiSessionListResponse
      [] t = "OcpiSessionResponse" -> OcpiSessionResponse
      [] t = "OcpiChargingPreferences" -> OcpiChargingPreferences
      [] t = "OcpiChargingPreferencesResponse" -> OcpiChargingPreferencesResponse
      [] t = "OcpiEndpoint" -> OcpiEndpoint
      [] t = "OcpiVersion" -> OcpiVersion
      [] t = "OcpiVersionDetail" -> OcpiVersionDetail
      [] t = "OcpiVersionsResponse" -> OcpiVersionsResponse
      [] t = "OcpiVersionDetailsResponse" -> OcpiVersionDetailsResponse
      [] t = "OcpiPrice" -> OcpiPrice
      [] t = "OcpiCdrDimension" -> OcpiCdrDimension
      [] t = "OcpiChargingPeriod" -> OcpiChargingPeriod

EnumValues(e) ==
    CASE e = "OcpiConnectorTypeEnum" -> OcpiConnectorTypeEnum
      [] e = "OcpiConnectorFormatEnum" -> OcpiConnectorFormatEnum
      [] e = "OcpiPowerTypeEnum" -> OcpiPowerTypeEnum
      [] e = "OcpiStatusEnum" -> OcpiStatusEnum
      [] e = "OcpiCapabilityEnum" -> OcpiCapabilityEnum
      [] e = "OcpiParkingRestrictionEnum" -> OcpiParkingRestrictionEnum
      [] e = "OcpiVersionNumberEnum" -> OcpiVersionNumberEnum
      [] e = "OcpiModuleIdEnum" -> OcpiModuleIdEnum
      [] e = "OcpiInterfaceRoleEnum" -> OcpiInterfaceRoleEnum
      [] e = "OcpiTokenTypeEnum" -> OcpiTokenTypeEnum
      [] e = "OcpiAuthMethodEnum" -> OcpiAuthMethodEnum
      [] e = "OcpiSessionStatusEnum" -> OcpiSessionStatusEnum
      [] e = "OcpiProfileTypeEnum" -> OcpiProfileTypeEnum
      [] e = "OcpiChargingPreferencesResponseEnum" -> OcpiChargingPreferencesResponseEnum
      [] e = "OcpiCdrDimensionTypeEnum" -> OcpiCdrDimensionTypeEnum

(***************************************************************************)
(* Text conversions of pydantic: ISO-8601 timestamps and URLs.  A text is   *)
(* parsed by finding the parts it is made of.                               *)
(***************************************************************************)
WallClocks ==
    { "2015-05-29T10:12:26", "2015-06-21T22:39:05", "2015-06-28T11:21:09",
      "2015-06-29T22:39:09", "2015-06-29T22:40:54", "2015-06-29T23:07:09",
      "2015-06-29T23:50:16", "2015-06-29T23:50:17", "2015-06-30T21:59:59",
      "2020-03-09T10:17:09",
      "2026-01-01T00:00:00", "2026-01-01T00:00:01", "2026-01-01T00:00:02",
      "2026-01-01T00:00:03", "2026-01-01T00:00:04", "2026-01-01T00:00:05" }

Fractions == { "", ".500000" }

Microsecond(f) == IF f = "" THEN 0 ELSE 500000

Zones == { "", "Z", "+00:00", "+02:00" }

TzInfo(z) ==
    CASE z = "" -> "naive"
      [] z = "Z" -> "UTC"
      [] z = "+00:00" -> "UTC"
      [] OTHER -> z

DatetimeText(t, f, z) == t \o f \o z

ParseDatetime(s) ==
    LET hits == { h \in WallClocks \X Fractions \X Zones :
                    DatetimeText(h[1], h[2], h[3]) = s }
    IN  IF hits = {}
        THEN [ok |-> FALSE, val |-> NoObject]
        ELSE LET h == CHOOSE x \in hits : TRUE
             IN  [ok |-> TRUE, val |-> PyDatetime(h[1], Microsecond(h[2]), TzInfo(h[3]))]

\* serialisation writes UTC as "Z", an offset as it is, and nothing for a
\* naive datetime; the fraction is written only when it is not zero
FormatDatetime(d) ==
    DatetimeText(d.t,
                 CHOOSE f \in Fractions : Microsecond(f) = d.us,
                 CASE d.tz = "naive" -> ""
                   [] d.tz = "UTC" -> "Z"
                   [] OTHER -> d.tz)

Schemes == { "https", "http", "ftp" }

Hosts == { "", "example.com", "wincharge.com.tw" }

Paths ==
    { "", "/", "/ocpi/cpo/2.2/", "/ocpi/cpo/2.2/credentials",
      "/wp-content/uploads/2022/07/logo_wincharge_banner_blue.png" }

UrlText(scheme, host, path) == scheme \o "://" \o host \o path

\* HttpUrl: scheme http or https, a host, and an empty path becomes "/"
ParseHttpUrl(s) ==
    LET hits == { h \in Schemes \X Hosts \X Paths : UrlText(h[1], h[2], h[3]) = s }
    IN  IF hits = {}
        THEN [ok |-> FALSE, type |-> "url_parsing", val |-> NoObject]
        ELSE LET h == CHOOSE x \in hits : TRUE
             IN  IF h[1] \notin { "http", "https" }
                 THEN [ok |-> FALSE, type |-> "url_scheme", val |-> NoObject]
                 ELSE IF h[2] = ""
                 THEN [ok |-> FALSE, type |-> "url_parsing", val |-> NoObject]
                 ELSE [ok |-> TRUE, type |-> "",
                       val |-> PyUrl(h[1], h[2], IF h[3] = "" THEN "/" ELSE h[3])]

(***************************************************************************)
(* The clock read by OcpiBaseResponse.timestamp's default_factory.          *)
(***************************************************************************)
ClockTexts ==
    << "2026-01-01T00:00:00", "2026-01-01T00:00:01", "2026-01-01T00:00:02",
       "2026-01-01T00:00:03", "2026-01-01T00:00:04", "2026-01-01T00:00:05" >>

\* datetime.now(timezone.utc)
UtcNow(clock) ==
    PyDatetime(ClockTexts[(clock \div 2) + 1], (clock % 2) * 500000, "UTC")

\* a factory that keeps the sub-second part of the clock
TimestampFactoryExact(clock) == UtcNow(clock)

\* lambda: datetime.now(timezone.utc).replace(microsecond=0)
TimestampFactory(clock) == [UtcNow(clock) EXCEPT !.us = 0]

(***************************************************************************)
(* model_validate: pydantic walks the field table, validates every field   *)
(* that is present, takes the default of an absent one, and collects every *)
(* error with its location.                                                *)
(***************************************************************************)
Ok(v) == [errs |-> {}, val |-> v]

Err(loc, type) == [errs |-> {[loc |-> loc, type |-> type]}, val |-> NoObject]

\* a length check that only knows the upper limit
ValidateStrMaxOnly(kind, raw, loc) ==
    IF raw.j # "str" THEN [errs |-> {[loc |-> loc, type |-> "string_type"]}, val |-> NoObject]
    ELSE IF kind.k # "text" /\ Len(raw.v) > kind.max
    THEN [errs |-> {[loc |-> loc, type |-> "string_too_long"]}, val |-> NoObject]
    ELSE [errs |-> {}, val |-> PyStr(raw.v)]

ValidateStr(kind, raw, loc) ==
    IF raw.j # "str" THEN Err(loc, "string_type")
    ELSE IF kind.k = "text" THEN Ok(PyStr(raw.v))
    ELSE IF Len(raw.v) < kind.min THEN Err(loc, "string_too_short")
    ELSE IF Len(raw.v) > kind.max THEN Err(loc, "string_too_long")
    ELSE Ok(PyStr(raw.v))

\* lax mode: a float with no fractional part is an int
ValidateInt(raw, loc) ==
    CASE raw.j = "int" -> Ok(PyInt(raw.v))
      [] raw.j = "float" ->
            IF raw.v[2] = 0 THEN Ok(PyInt(raw.v[1])) ELSE Err(loc, "int_from_float")
      [] raw.j = "str" -> Err(loc, "int_parsing")
      [] OTHER -> Err(loc, "int_type")

ValidateFloat(raw, loc) ==
    CASE raw.j = "int" -> Ok(PyFloat(raw.v, 0))
      [] raw.j = "float" -> Ok(PyFloat(raw.v[1], raw.v[2]))
      [] raw.j = "str" -> Err(loc, "float_parsing")
      [] OTHER -> Err(loc, "float_type")

\* lax mode: 0 and 1 are booleans too
ValidateBool(raw, loc) ==
    CASE raw.j = "bool" -> Ok(PyBool(raw.v))
      [] raw.j = "int" ->
            IF raw.v \in { 0, 1 } THEN Ok(PyBool(raw.v = 1)) ELSE Err(loc, "bool_parsing")
      [] OTHER -> Err(loc, "bool_type")

\* str.upper() on the tokens the inputs use
UpperCase(s) ==
    CASE s = "available" -> "AVAILABLE"
      [] s = "Unknown" -> "UNKNOWN"
      [] s = "rfid_reader" -> "RFID_READER"
      [] s = "Reservable" -> "RESERVABLE"
      [] s = "ev_only" -> "EV_ONLY"
      [] s = "Plugged" -> "PLUGGED"
      [] s = "chademo" -> "CHADEMO"
      [] s = "iec_62196_t2" -> "IEC_62196_T2"
      [] s = "IEC_60309_2_single_16" -> "IEC_60309_2_SINGLE_16"
      [] s = "socket" -> "SOCKET"
      [] s = "Cable" -> "CABLE"
      [] s = "ac_3_phase" -> "AC_3_PHASE"
      [] s = "dc" -> "DC"
      [] s = "Credentials" -> "CREDENTIALS"
      [] s = "credentials" -> "CREDENTIALS"
      [] s = "locations" -> "LOCATIONS"
      [] s = "sender" -> "SENDER"
      [] s = "Receiver" -> "RECEIVER"
      [] s = "rfid" -> "RFID"
      [] s = "whitelist" -> "WHITELIST"
      [] s = "pending" -> "PENDING"
      [] s = "green" -> "GREEN"
      [] s = "accepted" -> "ACCEPTED"
      [] s = "energy" -> "ENERGY"
      [] OTHER -> s

\* a lookup that ignores letter case
EnumAcceptsAnyCase(e, token) ==
    UpperCase(token) \in { UpperCase(v) : v \in EnumValues(e) }

\* a str-Enum member is found by its exact value
EnumAccepts(e, token) == token \in EnumValues(e)

ValidateEnum(kind, raw, loc) ==
    IF raw.j = "str" /\ EnumAccepts(kind.enum, raw.v)
    THEN Ok(PyEnum(kind.enum, raw.v))
    ELSE Err(loc, "enum")

\* a validator that knows the four families but not their members
StatusAcceptsFamily(code) == code \in 1000..4999

\* an IntEnum member is found by its exact value
StatusAccepts(code) == code \in OcpiStatus

ValidateIntEnum(kind, raw, loc) ==
    IF raw.j = "int" /\ StatusAccepts(raw.v)
    THEN Ok(PyIntEnum(kind.enum, raw.v))
    ELSE Err(loc, "enum")

\* AwareDatetime adds the timezone check to datetime
TimezoneRule(kind, d) == kind.k = "aware_datetime" => d.tz # "naive"

ValidateDatetime(kind, raw, loc) ==
    IF raw.j # "str" THEN Err(loc, "datetime_type")
    ELSE LET r == ParseDatetime(raw.v)
         IN  IF ~r.ok THEN Err(loc, "datetime_from_date_parsing")
             ELSE IF ~TimezoneRule(kind, r.val) THEN Err(loc, "timezone_aware")
             ELSE Ok(r.val)

ValidateUrl(raw, loc) ==
    IF raw.j # "str" THEN Err(loc, "url_type")
    ELSE LET r == ParseHttpUrl(raw.v)
         IN  IF r.ok THEN Ok(r.val) ELSE Err(loc, r.type)

RECURSIVE ValidateValue(_, _, _)

\* `T | None` accepts null; everything else goes to T's validator
ValidateField(info, raw, loc) ==
    IF info.nullable /\ raw.j = "null" THEN Ok(PyNone)
    ELSE ValidateValue(info.kind, raw, loc)

\* the default of an absent field; it is not validated
FieldDefault(info) ==
    IF info.dflt = DefaultFactory THEN TimestampFactory(now) ELSE info.dflt

\* a validator that forgives: a bad value of a field that has a default is
\* replaced by the default
FieldResultLenient(t, o, f, loc) ==
    LET info == ModelFields(t)[f]
        strict == IF f \in DOMAIN o THEN ValidateField(info, o[f], Append(loc, f))
                  ELSE IF info.req THEN Err(Append(loc, f), "missing")
                  ELSE Ok(FieldDefault(info))
    IN  IF strict.errs # {} /\ ~info.req THEN Ok(FieldDefault(info)) ELSE strict

\* one field of class t against the JSON object o
FieldResult(t, o, f, loc) ==
    LET info == ModelFields(t)[f]
    IN  IF f \in DOMAIN o THEN ValidateField(info, o[f], Append(loc, f))
        ELSE IF info.req THEN Err(Append(loc, f), "missing")
        ELSE Ok(FieldDefault(info))

\* every field of the class is validated, present or not
FieldResults(t, o, loc) ==
    { <<f, FieldResult(t, o, f, loc)>> : f \in DOMAIN ModelFields(t) }

\* a validator that stops at the first failure
LineErrorsFirstOnly(results) ==
    LET all == UNION { r[2].errs : r \in results }
    IN  IF all = {} THEN {} ELSE { CHOOSE e \in all : TRUE }

\* every error of every field is kept
LineErrors(results) == UNION { r[2].errs : r \in results }

ResultOf(results, key) == (CHOOSE r \in results : r[1] = key)[2]

\* a Session validator with a cross-field rule: the "#NA" placeholder is
\* allowed only while the session is PENDING
ValidateModelPlaceholderRule(t, o, loc) ==
    LET results == FieldResults(t, o, loc)
        cross == IF /\ t = "OcpiSession"
                    /\ { "evse_uid", "status" } \subseteq DOMAIN o
                    /\ o.evse_uid.j = "str"
                    /\ o.evse_uid.v = "#NA"
                    /\ o.status.j = "str"
                    /\ o.status.v # "PENDING"
                 THEN { [loc |-> Append(loc, "evse_uid"), type |-> "value_error"] }
                 ELSE {}
    IN  [ errs |-> LineErrors(results) \cup cross,
          val  |-> PyModel(t,
                           [f \in DOMAIN ModelFields(t) |-> ResultOf(results, f).val],
                           DOMAIN o \cap DOMAIN ModelFields(t)) ]

\* keys that are no field of the class are ignored (extra = "ignore")
ValidateModel(t, o, loc) ==
    LET results == FieldResults(t, o, loc)
    IN  [ errs |-> LineErrors(results),
          val  |-> PyModel(t,
                           [f \in DOMAIN ModelFields(t) |-> ResultOf(results, f).val],
                           DOMAIN o \cap DOMAIN ModelFields(t)) ]

ValidateList(item, a, loc) ==
    LET results == { <<i, ValidateValue(item, a[i], Append(loc, ToString(i - 1)))>> :
                       i \in 1..Len(a) }
    IN  [ errs |-> LineErrors(results),
          val  |-> PyList([i \in 1..Len(a) |-> ResultOf(results, i).val]) ]

ValidateValue(kind, raw, loc) ==
    CASE kind.k \in { "str", "text" } -> ValidateStr(kind, raw, loc)
      [] kind.k = "int" -> ValidateInt(raw, loc)
      [] kind.k = "float" -> ValidateFloat(raw, loc)
      [] kind.k = "bool" -> ValidateBool(raw, loc)
      [] kind.k = "any" -> Ok(PyAny(raw))
      [] kind.k = "enum" -> ValidateEnum(kind, raw, loc)
      [] kind.k = "intenum" -> ValidateIntEnum(kind, raw, loc)
      [] kind.k \in { "datetime", "aware_datetime" } -> ValidateDatetime(kind, raw, loc)
      [] kind.k = "url" -> ValidateUrl(raw, loc)
      [] kind.k = "model" ->
            IF raw.j = "obj" THEN ValidateModel(kind.cls, raw.v, loc)
            ELSE Err(loc, "model_type")
      [] kind.k = "list" ->
            IF raw.j = "arr" THEN ValidateList(kind.item, raw.v, loc)
            ELSE Err(loc, "list_type")

\* BaseModel.model_validate: the object, or a ValidationError with all errors
model_validate(t, raw) ==
    LET r == ValidateValue(KModel(t), raw, <<>>)
    IN  IF r.errs = {}
        THEN [ok |-> TRUE, obj |-> r.val, errors |-> {}]
        ELSE [ok |-> FALSE, obj |-> NoObject, errors |-> r.errs]

NoResult == [ok |-> FALSE, obj |-> NoObject, errors |-> {}]

(***************************************************************************)
(* model_dump_json: every field of the object is written, None as null;    *)
(* with exclude_unset only the fields the payload supplied are written.    *)
(* No class configures a serializer, so this is pydantic's default.        *)
(***************************************************************************)
RECURSIVE DumpValue(_, _)

DumpedFields(m, exclude_unset) ==
    IF exclude_unset THEN m.fields_set ELSE DOMAIN m.fields

DumpValue(v, exclude_unset) ==
    CASE v.py = "None" -> Null
      [] v.py = "bool" -> Bool(v.v)
      [] v.py = "int" -> Num(v.v)
      [] v.py = "float" -> Flt(v.v[1], v.v[2])
      [] v.py = "str" -> Str(v.v)
      [] v.py = "enum" -> Str(v.v)
      [] v.py = "intenum" -> Num(v.v)
      [] v.py = "datetime" -> Str(FormatDatetime(v))
      [] v.py = "url" -> Str(UrlText(v.scheme, v.host, v.path))
      [] v.py = "any" -> v.v
      [] v.py = "list" ->
            Arr([i \in 1..Len(v.v) |-> DumpValue(v.v[i], exclude_unset)])
      [] v.py = "model" ->
            Obj([f \in DumpedFields(v, exclude_unset) |->
                   DumpValue(v.fields[f], exclude_unset)])

model_dump_json(obj, exclude_unset) == DumpValue(obj, exclude_unset)

(***************************************************************************)
(* The example payloads the classes carry (_example / _examples).          *)
(***************************************************************************)
ExampleToken(country, uid, contract, visual, whitelist, updated) ==
    Obj([ country_code  |-> Str(country),
          party_id      |-> Str("TNM"),
          uid           |-> Str(uid),
          type          |-> Str("RFID"),
          contract_id   |-> Str(contract),
          visual_number |-> Str(visual),
          issuer        |-> Str("TheNewMotion"),
          valid         |-> Bool(TRUE),
          whitelist     |-> Str(whitelist),
          last_updated  |-> Str(updated) ])

OcpiDisplayText_example ==
    Obj([ language |-> Str("en"), text |-> Str("Standard Tariff") ])

OcpiGeoLocation_example ==
    Obj([ latitude |-> Str("51.047599"), longitude |-> Str("3.729944") ])

OcpiImage_example ==
    Obj([ url      |-> Str("https://wincharge.com.tw/wp-content/uploads/2022/07/logo_wincharge_banner_blue.png"),
          category |-> Str("OPERATOR"),
          type     |-> Str("png") ])

OcpiBaseResponse_examples ==
    << Obj([ data        |-> Null,
             status_code |-> Num(1000),
             timestamp   |-> Str("2015-06-30T21:59:59Z") ]),
       Obj([ data           |-> ExampleToken("DE", "012345678", "FA54320",
                                             "DF000-2001-8999", "ALLOWED",
                                             "2015-06-29T22:39:09Z"),
             status_code    |-> Num(1000),
             status_message |-> Str("Success"),
             timestamp      |-> Str("2015-06-30T21:59:59Z") ]),
       Obj([ data           |-> Arr(<< ExampleToken("NL", "100012", "FA54320",
                                                    "DF000-2001-8999", "ALWAYS",
                                                    "2015-06-21T22:39:05Z"),
                                       ExampleToken("NL", "100013", "FA543A5",
                                                    "DF000-2001-9000", "ALLOWED",
                                                    "2015-06-28T11:21:09Z"),
                                       ExampleToken("NL", "100014", "FA543BB",
                                                    "DF000-2001-9010", "ALLOWED",
                                                    "2015-05-29T10:12:26Z") >>),
             status_code    |-> Num(1000),
             status_message |-> Str("Success"),
             timestamp      |-> Str("2015-06-30T21:59:59Z") ]),
       Obj([ status_code    |-> Num(2001),
             status_message |-> Str("Missing required field: type"),
             timestamp      |-> Str("2015-06-30T21:59:59Z") ]) >>

ExampleCdrToken ==
    Obj([ uid         |-> Str("123abc"),
          type        |-> Str("RFID"),
          contract_id |-> Str("NL-TST-C12345678-S") ])

ExampleDimension(type, volume) == Obj([ type |-> Str(type), volume |-> volume ])

OcpiSession_examples ==
    << Obj([ country_code    |-> Str("NL"),
             party_id        |-> Str("STK"),
             id              |-> Str("101"),
             start_date_time |-> Str("2020-03-09T10:17:09Z"),
             kwh             |-> Flt(0, 0),
             cdr_token       |-> ExampleCdrToken,
             auth_method     |-> Str("WHITELIST"),
             location_id     |-> Str("LOC1"),
             evse_uid        |-> Str("3256"),
             connector_id    |-> Str("1"),
             currency        |-> Str("EUR"),
             total_cost      |-> Obj([ excl_vat |-> Flt(2, 500) ]),
             status          |-> Str("PENDING"),
             last_updated    |-> Str("2020-03-09T10:17:09Z") ]),
       Obj([ country_code     |-> Str("BE"),
             party_id         |-> Str("BEC"),
             id               |-> Str("101"),
             start_date_time  |-> Str("2015-06-29T22:39:09Z"),
             end_date_time    |-> Str("2015-06-29T23:50:16Z"),
             kwh              |-> Flt(41, 0),
             cdr_token        |-> ExampleCdrToken,
             auth_method      |-> Str("WHITELIST"),
             location_id      |-> Str("LOC1"),
             evse_uid         |-> Str("3256"),
             connector_id     |-> Str("1"),
             currency         |-> Str("EUR"),
             charging_periods |->
                Arr(<< Obj([ start_date_time |-> Str("2015-06-29T22:39:09Z"),
                             dimensions |-> Arr(<< ExampleDimension("ENERGY", Num(120)),
                                                   ExampleDimension("MAX_CURRENT", Num(30)) >>) ]),
                       Obj([ start_date_time |-> Str("2015-06-29T22:40:54Z"),
                             dimensions |-> Arr(<< ExampleDimension("ENERGY", Num(41000)),
                                                   ExampleDimension("MIN_CURRENT", Num(34)) >>) ]),
                       Obj([ start_date_time |-> Str("2015-06-29T23:07:09Z"),
                             dimensions |-> Arr(<< ExampleDimension("PARKING_TIME", Flt(0, 718)) >>),
                             tariff_id |-> Str("12") ]) >>),
             total_cost       |-> Obj([ excl_vat |-> Flt(8, 500), incl_vat |-> Flt(9, 350) ]),
             status           |-> Str("COMPLETED"),
             last_updated     |-> Str("2015-06-29T23:50:17Z") ]) >>

ExampleEnvelope(data) ==
    Obj([ data        |-> data,
          status_code |-> Num(1000),
          timestamp   |-> Str("2015-06-30T21:59:59Z") ])

OcpiSessionListResponse_examples == << ExampleEnvelope(Arr(<< OcpiSession_examples[1] >>)) >>

OcpiSessionResponse_examples == << ExampleEnvelope(OcpiSession_examples[1]) >>

OcpiChargingPreferencesResponse_examples == << ExampleEnvelope(OcpiSession_examples[1]) >>

ExampleEndpoint(identifier, role, url) ==
    Obj([ identifier |-> Str(identifier), role |-> Str(role), url |-> Str(url) ])

OcpiEndpoint_examples ==
    << ExampleEndpoint("credentials", "RECEIVER", "https://example.com/ocpi/cpo/2.2/credentials"),
       ExampleEndpoint("locations", "SENDER", "https://example.com/ocpi/cpo/2.2/locations"),
       ExampleEndpoint("tokens", "RECEIVER", "https://example.com/ocpi/cpo/2.2/tokens"),
       ExampleEndpoint("locations", "RECEIVER", "https://example.com/ocpi/emsp/2.2/locations"),
       ExampleEndpoint("tokens", "SENDER", "https://example.com/ocpi/emsp/2.2/tokens") >>

\* the examples of OcpiVersion and OcpiVersionDetail name the member
\* OcpiVersionNumberEnum.v2_2_1; the enumeration declares only v221, so the
\* expression has no value
UndeclaredMember == NoJson

OcpiVersion_example ==
    Obj([ version |-> UndeclaredMember, url |-> Str("https://example.com/ocpi/cpo/2.2/") ])

OcpiVersionDetail_example ==
    Obj([ version |-> UndeclaredMember, endpoints |-> Arr(OcpiEndpoint_examples) ])

OcpiVersionsResponse_examples == << ExampleEnvelope(Arr(<< OcpiVersion_example >>)) >>

OcpiVersionDetailsResponse_examples == << ExampleEnvelope(OcpiVersionDetail_example) >>

Range(q) == { q[i] : i \in 1..Len(q) }

Examples(t) ==
    CASE t = "OcpiDisplayText" -> { OcpiDisplayText_example }
      [] t = "OcpiGeoLocation" -> { OcpiGeoLocation_example }
      [] t = "OcpiImage" -> { OcpiImage_example }
      [] t = "OcpiBaseResponse" -> Range(OcpiBaseResponse_examples)
      [] t = "OcpiSession" -> Range(OcpiSession_examples)
      [] t = "OcpiSessionListResponse" -> Range(OcpiSessionListResponse_examples)
      [] t = "OcpiSessionResponse" -> Range(OcpiSessionResponse_examples)
      [] t = "OcpiChargingPreferencesResponse" -> Range(OcpiChargingPreferencesResponse_examples)
      [] t = "OcpiEndpoint" -> Range(OcpiEndpoint_examples)
      [] t = "OcpiVersion" -> { OcpiVersion_example }
      [] t = "OcpiVersionDetail" -> { OcpiVersionDetail_example }
      [] t = "OcpiVersionsResponse" -> Range(OcpiVersionsResponse_examples)
      [] t = "OcpiVersionDetailsResponse" -> Range(OcpiVersionDetailsResponse_examples)
      [] OTHER -> {}

(***************************************************************************)
(* Payloads a sender may hand to the core: for every class one payload     *)
(* with every field filled in correctly, from which the sender omits or    *)
(* replaces up to MaxEdits fields.                                         *)
(***************************************************************************)
FullCdrToken ==
    Obj([ country_code |-> Str("NL"),
          party_id     |-> Str("TST"),
          uid          |-> Str("123abc"),
          type         |-> Str("RFID"),
          contract_id  |-> Str("NL-TST-C12345678-S") ])

FullConnector ==
    Obj([ id                   |-> Str("1"),
          standard             |-> Str("IEC_62196_T2"),
          format               |-> Str("CABLE"),
          power_type           |-> Str("AC_3_PHASE"),
          max_voltage          |-> Num(220),
          max_amperage         |-> Num(16),
          max_electric_power   |-> Num(10560),
          tariff_ids           |-> Arr(<< Str("11") >>),
          terms_and_conditions |-> Str("https://example.com/"),
          last_updated         |-> Str("2015-06-29T22:39:09Z") ])

FullStatusSchedule ==
    Obj([ period_begin |-> Str("2015-06-29T22:39:09Z"),
          period_end   |-> Str("2015-06-29T23:50:16Z"),
          status       |-> Str("INOPERATIVE") ])

FullImage ==
    Obj([ url       |-> Str("https://example.com/"),
          thumbnail |-> Str("https://example.com/"),
          category  |-> Str("OPERATOR"),
          type      |-> Str("png"),
          width     |-> Num(512),
          height    |-> Num(512) ])

FullEvse ==
    Obj([ uid                  |-> Str("3256"),
          evse_id              |-> Str("BE*BEC*E041503001"),
          status               |-> Str("AVAILABLE"),
          status_schedule      |-> Arr(<< FullStatusSchedule >>),
          capabilities         |-> Arr(<< Str("RESERVABLE") >>),
          connectors           |-> Arr(<< FullConnector >>),
          floor_level          |-> Str("-1"),
          coordinates          |-> OcpiGeoLocation_example,
          physical_reference   |-> Str("1"),
          directions           |-> Arr(<< OcpiDisplayText_example >>),
          parking_restrictions |-> Arr(<< Str("EV_ONLY") >>),
          images               |-> Arr(<< FullImage >>),
          last_updated         |-> Str("2015-06-28T11:21:09Z") ])

FullChargingPeriod ==
    Obj([ start_date_time |-> Str("2015-06-29T22:39:09Z"),
          dimensions      |-> Arr(<< ExampleDimension("ENERGY", Flt(0, 718)) >>),
          tariff_id       |-> Str("12") ])

FullSession ==
    Obj([ country_code            |-> Str("NL"),
          party_id                |-> Str("STK"),
          id                      |-> Str("101"),
          start_date_time         |-> Str("2020-03-09T10:17:09Z"),
          end_date_time           |-> Str("2020-03-09T10:17:09Z"),
          kwh                     |-> Num(41),
          cdr_token               |-> FullCdrToken,
          auth_method             |-> Str("WHITELIST"),
          authorization_reference |-> Str("abc"),
          location_id             |-> Str("LOC1"),
          evse_uid                |-> Str("3256"),
          connector_id            |-> Str("1"),
          meter_id                |-> Str("m1"),
          currency                |-> Str("EUR"),
          charging_periods        |-> Arr(<< FullChargingPeriod >>),
          total_cost              |-> Obj([ excl_vat |-> Flt(2, 500), incl_vat |-> Flt(9, 350) ]),
          status                  |-> Str("PENDING"),
          last_updated            |-> Str("2020-03-09T10:17:09Z") ])

FullChargingPreferences ==
    Obj([ profile_type      |-> Str("GREEN"),
          departure_time    |-> Str("2020-03-09T10:17:09Z"),
          energy_need       |-> Flt(2, 500),
          discharge_allowed |-> Bool(TRUE) ])

FullVersion ==
    Obj([ version |-> Str("2.2.1"), url |-> Str("https://example.com/ocpi/cpo/2.2/") ])

FullVersionDetail ==
    Obj([ version |-> Str("2.2.1"), endpoints |-> Arr(<< OcpiEndpoint_examples[1] >>) ])

FullEnvelope(data) ==
    Obj([ data           |-> data,
          status_code    |-> Num(1000),
          status_message |-> Str("Success"),
          timestamp      |-> Str("2015-06-30T21:59:59Z") ])

Full(t) ==
    CASE t = "OcpiDisplayText" -> OcpiDisplayText_example
      [] t = "OcpiGeoLocation" -> OcpiGeoLocation_example
      [] t = "OcpiImage" -> FullImage
      [] t = "OcpiBaseResponse" -> FullEnvelope(OcpiBaseResponse_examples[2].v.data)
      [] t = "OcpiCdrToken" -> FullCdrToken
      [] t = "OcpiConnector" -> FullConnector
      [] t = "OcpiStatusSchedule" -> FullStatusSchedule
      [] t = "OcpiEvse" -> FullEvse
      [] t = "OcpiSession" -> FullSession
      [] t = "OcpiSessionListResponse" -> FullEnvelope(Arr(<< FullSession >>))
      [] t = "OcpiSessionResponse" -> FullEnvelope(FullSession)
      [] t = "OcpiChargingPreferences" -> FullChargingPreferences
      [] t = "OcpiChargingPreferencesResponse" -> FullEnvelope(Str("ACCEPTED"))
      [] t = "OcpiEndpoint" -> OcpiEndpoint_examples[1]
      [] t = "OcpiVersion" -> FullVersion
      [] t = "OcpiVersionDetail" -> FullVersionDetail
      [] t = "OcpiVersionsResponse" -> FullEnvelope(Arr(<< FullVersion >>))
      [] t = "OcpiVersionDetailsResponse" -> FullEnvelope(FullVersionDetail)
      [] t = "OcpiPrice" -> FullSession.v.total_cost
      [] t = "OcpiCdrDimension" -> ExampleDimension("ENERGY", Flt(0, 718))
      [] t = "OcpiChargingPeriod" -> FullChargingPeriod

\* the classes a payload is validated as
Targets ==
    { "OcpiDisplayText", "OcpiGeoLocation", "OcpiImage", "OcpiBaseResponse",
      "OcpiCdrToken", "OcpiConnector", "OcpiStatusSchedule", "OcpiEvse",
      "OcpiSession", "OcpiSessionListResponse", "OcpiSessionResponse",
      "OcpiChargingPreferences", "OcpiChargingPreferencesResponse",
      "OcpiEndpoint", "OcpiVersion", "OcpiVersionDetail",
      "OcpiVersionsResponse", "OcpiVersionDetailsResponse" }

(***************************************************************************)
(* What the sender may put in place of a field's value.  Faults are the    *)
(* few values that combine with other edits; Probes are the wide ranges    *)
(* (every token of an enumeration, every status code, nested objects with  *)
(* a field omitted or spoiled) tried one at a time.                        *)
(***************************************************************************)
RECURSIVE Repeat(_, _)
Repeat(c, n) ==
    IF n = 0 THEN ""
    ELSE LET half == Repeat(c, n \div 2)
         IN  IF n % 2 = 0 THEN half \o half ELSE half \o half \o c

\* tokens that differ from a declared value only in letter case, or that
\* are a member's name and not its value
MiscasedTokens ==
    { "available", "Unknown", "rfid_reader", "Reservable", "ev_only", "Plugged",
      "chademo", "iec_62196_t2", "IEC_60309_2_SINGLE_16", "socket", "Cable",
      "ac_3_phase", "dc", "Credentials", "LOCATIONS", "sender", "Receiver",
      "rfid", "whitelist", "pending", "green", "accepted", "energy" }

Miscased(e) ==
    { s \in MiscasedTokens : \E v \in EnumValues(e) : UpperCase(v) = UpperCase(s) }

UndeclaredTokens == { "NOT_A_TOKEN", "", "v2_2_1", "2.2" }

UndeclaredCodes == { -1000, 0, 999, 1001, 1999, 2005, 2999, 3004, 3999, 4004, 4999, 5000 }

RECURSIVE Spoiled(_)
Spoiled(kind) ==
    CASE kind.k = "text" -> Num(7)
      [] kind.k = "str" -> Str(Repeat("x", kind.max + 1))
      [] kind.k = "int" -> Str("high")
      [] kind.k = "float" -> Str("much")
      [] kind.k = "bool" -> Num(7)
      [] kind.k = "enum" -> Str("NOT_A_TOKEN")
      [] kind.k = "intenum" -> Num(2005)
      [] kind.k = "datetime" -> Str("yesterday")
      [] kind.k = "aware_datetime" -> Str("2015-06-30T21:59:59")
      [] kind.k = "url" -> Str("")
      [] kind.k = "model" -> Obj(<<>>)
      [] kind.k = "list" -> Arr(<< Spoiled(kind.item) >>)
      [] kind.k = "any" -> Null

Faults(kind) ==
    { Spoiled(kind) } \cup
    CASE kind.k = "str" ->
            { Str(Repeat("x", IF kind.min > 0 THEN kind.min - 1 ELSE kind.max)) }
      [] kind.k = "int" -> { Num(-5) }
      [] kind.k = "enum" -> { Str(x) : x \in Miscased(kind.enum) }
      [] kind.k = "intenum" -> { Num(2001) }
      [] kind.k = "datetime" -> { Str("2015-06-30T21:59:59") }
      [] kind.k = "aware_datetime" -> { Str("yesterday") }
      [] kind.k = "list" -> { Arr(<<>>) }
      [] OTHER -> {}

OmitKey(o, f) == Obj([g \in DOMAIN o.v \ {f} |-> o.v[g]])

PutKey(o, f, x) == Obj([g \in DOMAIN o.v \cup {f} |-> IF g = f THEN x ELSE o.v[g]])

\* an object of class t with one field omitted or spoiled
NestedVariants(t) ==
    { OmitKey(Full(t), f) : f \in DOMAIN ModelFields(t) } \cup
    { PutKey(Full(t), f, Spoiled(ModelFields(t)[f].kind)) : f \in DOMAIN ModelFields(t) }

ItemProbes(item) ==
    CASE item.k = "model" -> NestedVariants(item.cls)
      [] item.k = "enum" ->
            { Str(x) : x \in EnumValues(item.enum) \cup Miscased(item.enum) }
      [] OTHER -> { Spoiled(item) }

ItemSample(item) ==
    CASE item.k = "model" -> Full(item.cls)
      [] item.k = "enum" -> Str(CHOOSE x \in EnumValues(item.enum) : TRUE)
      [] OTHER -> Str("11")

Probes(kind) ==
    { Null } \cup
    CASE kind.k = "str" ->
            { Str(Repeat("x", n)) : n \in { 0, 1, kind.min, kind.max } } \cup { Str("#NA") }
      [] kind.k = "text" -> { Str(""), Str("/ocpi/cpo/2.2/"), Str("example.com") }
      [] kind.k = "int" -> { Num(0), Flt(16, 0), Flt(1, 500) }
      [] kind.k = "float" -> { Num(3) }
      [] kind.k = "bool" -> { Bool(FALSE), Num(1) }
      [] kind.k = "any" -> { Str("text"), Arr(<<>>), Obj(<<>>) }
      [] kind.k = "enum" ->
            { Str(x) : x \in EnumValues(kind.enum) \cup UndeclaredTokens } \cup { Num(1) }
      [] kind.k = "intenum" ->
            { Num(c) : c \in OcpiStatus \cup UndeclaredCodes } \cup { Str("SUCCESS") }
      [] kind.k \in { "datetime", "aware_datetime" } ->
            { Str(DatetimeText("2015-06-30T21:59:59", f, z)) : f \in Fractions, z \in Zones }
      [] kind.k = "url" ->
            { Str(UrlText(h[1], h[2], h[3])) : h \in Schemes \X Hosts \X { "", "/" } }
            \cup { Str("/ocpi/cpo/2.2/"), Str("example.com") }
      [] kind.k = "model" -> NestedVariants(kind.cls) \cup { Str("x") }
      [] kind.k = "list" ->
            { Arr(<< x >>) : x \in ItemProbes(kind.item) } \cup
            { Arr(<< ItemSample(kind.item), x >>) : x \in ItemProbes(kind.item) } \cup
            { Arr(<< x, x >>) : x \in ItemProbes(kind.item) } \cup
            { Str("x") }
      [] OTHER -> {}

\* the two ranges of every field of every class, worked out once
FaultTable ==
    [t \in Targets |->
        [f \in DOMAIN ModelFields(t) |->
            Faults(ModelFields(t)[f].kind) \ { Full(t).v[f] }] @@ <<>>] @@ <<>>

ProbeTable ==
    [t \in Targets |->
        [f \in DOMAIN ModelFields(t) |-> Probes(ModelFields(t)[f].kind)] @@ <<>>] @@ <<>>

(***************************************************************************)
(* The transport layer around the core: it receives a payload for a class, *)
(* has it validated, and writes the object back out.                       *)
(***************************************************************************)
Init ==
    /\ phase = "idle"
    /\ target = "none"
    /\ payload = NoJson
    /\ edits = 0
    /\ result = NoResult
    /\ unset = FALSE
    /\ wire = NoJson
    /\ now = 0

\* a sender's payload for class t, every field filled in
Receive(t) ==
    /\ phase = "idle"
    /\ phase' = "received"
    /\ target' = t
    /\ payload' = Full(t)
    /\ edits' = 0
    /\ UNCHANGED <<result, unset, wire, now>>

\* one of the class's own example payloads, as it is written
ReceiveExample(t, p) ==
    /\ phase = "idle"
    /\ p \in Examples(t)
    /\ phase' = "received"
    /\ target' = t
    /\ payload' = p
    /\ edits' = MaxEdits
    /\ UNCHANGED <<result, unset, wire, now>>

\* the sender leaves a field out
Omit(f) ==
    /\ phase = "received"
    /\ edits < MaxEdits
    /\ f \in DOMAIN payload.v
    /\ payload' = OmitKey(payload, f)
    /\ edits' = edits + 1
    /\ UNCHANGED <<phase, target, result, unset, wire, now>>

\* the sender sends another value for a field
\* the sender sends another value for a field it has not touched yet
Replace(f) ==
    /\ phase = "received"
    /\ edits < MaxEdits
    /\ f \in DOMAIN payload.v
    /\ payload.v[f] = Full(target).v[f]
    /\ \E x \in FaultTable[target][f] : payload' = PutKey(payload, f, x)
    /\ edits' = edits + 1
    /\ UNCHANGED <<phase, target, result, unset, wire, now>>

\* the sender sends one value of the field's wide range, and nothing else
Probe(f) ==
    /\ phase = "received"
    /\ edits = 0
    /\ f \in DOMAIN ModelFields(target)
    /\ \E x \in ProbeTable[target][f] : payload' = PutKey(payload, f, x)
    /\ edits' = MaxEdits
    /\ UNCHANGED <<phase, target, result, unset, wire, now>>

Validate ==
    /\ phase = "received"
    /\ phase' = "validated"
    /\ result' = model_validate(target, payload)
    /\ UNCHANGED <<target, payload, edits, unset, wire, now>>

Dump(exclude_unset) ==
    /\ phase = "validated"
    /\ result.ok
    /\ phase' = "dumped"
    /\ unset' = exclude_unset
    /\ wire' = model_dump_json(result.obj, exclude_unset)
    /\ UNCHANGED <<target, payload, edits, result, now>>

Discard ==
    /\ phase \in { "validated", "dumped" }
    /\ phase' = "idle"
    /\ target' = "none"
    /\ payload' = NoJson
    /\ edits' = 0
    /\ result' = NoResult
    /\ unset' = FALSE
    /\ wire' = NoJson
    /\ UNCHANGED now

FieldNames == UNION { DOMAIN ModelFields(t) : t \in Targets }

Next ==
    \/ \E t \in Targets : Receive(t)
    \/ \E t \in Targets : \E p \in Examples(t) : ReceiveExample(t, p)
    \/ \E f \in FieldNames : Omit(f)
    \/ \E f \in FieldNames : Replace(f)
    \/ \E f \in FieldNames : Probe(f)
    \/ Validate
    \/ \E b \in BOOLEAN : Dump(b)
    \/ Discard

Spec == Init /\ [][Next]_vars

(***************************************************************************)
(* What a caller can do to an object it holds.  No class sets frozen or    *)
(* validate_assignment in its model_config, so BaseModel.__setattr__       *)
(* stores any value in a declared field without validating it and marks    *)
(* the field as set; a list-valued field holds a plain list, which the     *)
(* caller can append to in place.  `edits` counts these changes too.       *)
(***************************************************************************)
AssignedValues == << PyNone, PyInt(-1), PyStr("") >>

ListFields(t) == { f \in DOMAIN ModelFields(t) : ModelFields(t)[f].kind.k = "list" }

\* obj.f = x
SetAttr(f, x) ==
    /\ phase = "validated"
    /\ result.ok
    /\ edits < MaxEdits
    /\ f \in DOMAIN ModelFields(target)
    /\ result' = [result EXCEPT !.obj.fields[f] = x,
                                !.obj.fields_set = @ \cup { f }]
    /\ edits' = edits + 1
    /\ UNCHANGED <<phase, target, payload, unset, wire, now>>

\* obj.f.append(x)
AppendItem(f, x) ==
    /\ phase = "validated"
    /\ result.ok
    /\ edits < MaxEdits
    /\ f \in ListFields(target)
    /\ result.obj.fields[f].py = "list"
    /\ result' = [result EXCEPT !.obj.fields[f] = PyList(Append(@.v, x))]
    /\ edits' = edits + 1
    /\ UNCHANGED <<phase, target, payload, unset, wire, now>>

MutableNext ==
    \/ \E t \in Targets : Receive(t)
    \/ Validate
    \/ \E f \in FieldNames : \E i \in DOMAIN AssignedValues : SetAttr(f, AssignedValues[i])
    \/ \E f \in FieldNames : \E i \in DOMAIN AssignedValues : AppendItem(f, AssignedValues[i])
    \/ \E b \in BOOLEAN : Dump(b)
    \/ Discard

MutableSpec == Init /\ [][MutableNext]_vars

(***************************************************************************)
(* Properties.                                                             *)
(***************************************************************************)
Validated == phase \in { "validated", "dumped" }

Supplied(f) == f \in DOMAIN payload.v

ErrorsAt(f) == { e \in result.errors : e.loc[1] = f }

MissingError(f) == [loc |-> <<f>>, type |-> "missing"]

ResponseTypes ==
    { "OcpiBaseResponse", "OcpiSessionListResponse", "OcpiSessionResponse",
      "OcpiChargingPreferencesResponse", "OcpiVersionsResponse",
      "OcpiVersionDetailsResponse" }

EndpointResponseTypes == ResponseTypes \ { "OcpiBaseResponse" }

\* the status-code space as the OCPI response format publishes it
PublishedCodes == { 1000 } \cup 2000..2004 \cup 3000..3003 \cup 4000..4003

\* C1: decoding an OcpiBaseResponse succeeds only if status_code is present
\* and is one of the published codes: without status_code the payload is
\* refused (status_code: missing), a code outside 1000, 2000-2004, 3000-3003
\* and 4000-4003 is refused, and each published code is accepted (no
\* violation is reported for status_code).
C1_StatusCodeClosed ==
    (Validated /\ target = "OcpiBaseResponse") =>
        /\ result.ok => /\ Supplied("status_code")
                        /\ payload.v.status_code.j = "int"
                        /\ payload.v.status_code.v \in PublishedCodes
        /\ ~Supplied("status_code") => MissingError("status_code") \in result.errors
        /\ (Supplied("status_code") /\ payload.v.status_code.j = "int") =>
              IF payload.v.status_code.v \in PublishedCodes
              THEN /\ ErrorsAt("status_code") = {}
                   /\ result.ok => result.obj.fields.status_code.v = payload.v.status_code.v
              ELSE ErrorsAt("status_code") # {} /\ ~result.ok

\* an unpublished code inside a family's range has been refused
C1_Witness ==
    /\ phase = "validated"
    /\ target = "OcpiBaseResponse"
    /\ Supplied("status_code")
    /\ payload.v.status_code = Num(2005)
    /\ ~result.ok

\* C2 (as claimed): an OcpiBaseResponse decoded from a payload without data
\* encodes without the data key, one decoded from a payload with data null
\* encodes with data present and null, and so the two encodings differ.
C2_OmittedDataStaysAbsent ==
    (phase = "dumped" /\ target = "OcpiBaseResponse") =>
        /\ ~Supplied("data") =>
              /\ "data" \notin DOMAIN wire.v
              /\ wire # model_dump_json(
                            model_validate(target, PutKey(payload, "data", Null)).obj, unset)
        /\ (Supplied("data") /\ payload.v.data = Null) =>
              /\ "data" \in DOMAIN wire.v
              /\ wire.v.data = Null

\* the error envelope of the response format: no data, 2001 and a message
ErrorEnvelope(p) ==
    /\ DOMAIN p.v = { "status_code", "status_message", "timestamp" }
    /\ p.v.status_code = Num(2001)
    /\ p.v.status_message.j = "str"
    /\ p.v.timestamp = Str("2015-06-30T21:59:59Z")

NaiveTexts == { Str(DatetimeText(t, f, "")) : t \in WallClocks, f \in Fractions }

TimestampFields ==
    { <<"OcpiConnector", "last_updated">>,
      <<"OcpiEvse", "last_updated">>,
      <<"OcpiStatusSchedule", "period_begin">>,
      <<"OcpiStatusSchedule", "period_end">>,
      <<"OcpiSession", "start_date_time">>,
      <<"OcpiSession", "end_date_time">>,
      <<"OcpiSession", "last_updated">>,
      <<"OcpiChargingPreferences", "departure_time">>,
      <<"OcpiBaseResponse", "timestamp">> }

\* C4 (as claimed): every timestamp field refuses a timestamp that carries
\* no UTC offset: Connector.last_updated, EVSE.last_updated,
\* StatusSchedule.period_begin/period_end, Session.start_date_time/
\* end_date_time/last_updated, ChargingPreferences.departure_time and the
\* envelope's timestamp when the caller supplies it.
C4_NaiveTimestampRefused ==
    Validated =>
        \A tf \in TimestampFields :
            (target = tf[1] /\ Supplied(tf[2]) /\ payload.v[tf[2]] \in NaiveTexts) =>
                /\ ~result.ok
                /\ ErrorsAt(tf[2]) # {}

\* C5 (as claimed): an EVSE validated on its own, as the EVSE response
\* payload, is refused when its connectors list is empty or absent.
C5_StandaloneEvseNeedsConnector ==
    (Validated /\ target = "OcpiEvse") =>
        ((~Supplied("connectors") \/ payload.v.connectors = Arr(<<>>)) => ~result.ok)

\* JSON equality that does not tell 41 from 41.0
RECURSIVE PlainNumbers(_)
PlainNumbers(x) ==
    CASE x.j = "float" -> IF x.v[2] = 0 THEN Num(x.v[1]) ELSE x
      [] x.j = "arr" -> Arr([i \in 1..Len(x.v) |-> PlainNumbers(x.v[i])])
      [] x.j = "obj" -> Obj([f \in DOMAIN x.v |-> PlainNumbers(x.v[f])])
      [] OTHER -> x

JsonEqual(x, y) == PlainNumbers(x) = PlainNumbers(y)

\* C6 (as claimed): every example payload a class carries decodes as that
\* class, and encoding the decoded object gives back the example's JSON.
C6_ExamplesRoundTrip ==
    (Validated /\ payload \in Examples(target)) =>
        /\ result.ok
        /\ phase = "dumped" => JsonEqual(wire, payload)

RequiredFields(t) == { f \in DOMAIN ModelFields(t) : ModelFields(t)[f].req }

\* the required fields the payload leaves out
Left == RequiredFields(target) \ DOMAIN payload.v

\* what a supplied field's own rules say about its value
OwnErrors(f) == ValidateField(ModelFields(target)[f], payload.v[f], <<f>>).errs

\* the supplied fields whose value breaks a rule of the field
Broken == { f \in DOMAIN payload.v \cap DOMAIN ModelFields(target) : OwnErrors(f) # {} }

\* C7: validation is exhaustive: every required field the payload omits
\* is reported with exactly one violation naming its path, every supplied
\* field that breaks its rules is reported (nested objects by their dotted
\* path), nothing else is reported, and so k omitted or broken fields give
\* at least k violations, exactly k when the k fields are omitted ones.
C7_EveryViolationReported ==
    phase = "validated" =>
        LET left == Left
            broken == Broken
        IN  /\ \A f \in left : ErrorsAt(f) = { MissingError(f) }
            /\ \A f \in broken : ErrorsAt(f) = OwnErrors(f)
            /\ \A e \in result.errors : e.loc[1] \in left \cup broken
            /\ Cardinality(result.errors) >= Cardinality(left) + Cardinality(broken)
            /\ broken = {} => Cardinality(result.errors) = Cardinality(left)

\* two required fields were omitted, nothing else was wrong, and the
\* refusal carries exactly the two violations
C7_Witness ==
    /\ phase = "validated"
    /\ Cardinality(Left) = 2
    /\ Broken = {}
    /\ result.errors = { MissingError(f) : f \in Left }

\* C8: construction is all-or-nothing: it succeeds exactly when no rule
\* of the object or of its nested objects is violated; a refusal returns
\* no object; an object that is returned holds what every supplied field
\* validated to (never a default in place of a supplied value), records
\* the supplied fields as set, and passes validation again when written out.
C8_AllOrNothing ==
    phase = "validated" =>
        /\ result.ok <=> (Left = {} /\ Broken = {})
        /\ ~result.ok => result.obj = NoObject /\ result.errors # {}
        /\ result.ok =>
              /\ result.obj.cls = target
              /\ result.obj.fields_set = DOMAIN payload.v \cap DOMAIN ModelFields(target)
              /\ \A f \in result.obj.fields_set :
                    result.obj.fields[f] =
                        ValidateField(ModelFields(target)[f], payload.v[f], <<f>>).val
              /\ model_validate(target, model_dump_json(result.obj, FALSE)).ok

\* an EVSE whose connectors hold one invalid Connector was refused whole
C8_Witness ==
    /\ phase = "validated"
    /\ target = "OcpiEvse"
    /\ Supplied("connectors")
    /\ payload.v.connectors.j = "arr"
    /\ Len(payload.v.connectors.v) = 2
    /\ Broken = { "connectors" }
    /\ result.obj = NoObject

\* the enumeration-typed fields and the enumeration each is declared with
EnumFields ==
    { <<"OcpiEvse", "status", OcpiStatusEnum>>,
      <<"OcpiConnector", "standard", OcpiConnectorTypeEnum>>,
      <<"OcpiConnector", "format", OcpiConnectorFormatEnum>>,
      <<"OcpiConnector", "power_type", OcpiPowerTypeEnum>>,
      <<"OcpiEndpoint", "identifier", OcpiModuleIdEnum>>,
      <<"OcpiEndpoint", "role", OcpiInterfaceRoleEnum>>,
      <<"OcpiVersion", "version", OcpiVersionNumberEnum>> }

EnumListFields ==
    { <<"OcpiEvse", "capabilities", OcpiCapabilityEnum>>,
      <<"OcpiEvse", "parking_restrictions", OcpiParkingRestrictionEnum>> }

Declared(x, tokens) == x.j = "str" /\ x.v \in tokens

OptionalFields(t) == { f \in DOMAIN ModelFields(t) : ModelFields(t)[f].nullable }

\* C10 (as claimed): an optional field the payload omits does not appear
\* in the encoded object; this holds for OcpiConnector, OcpiEvse,
\* OcpiStatusSchedule, OcpiSession, OcpiChargingPreferences and OcpiImage.
C10_AbsentOptionalOmitted ==
    (phase = "dumped" /\ target \in { "OcpiConnector", "OcpiEvse", "OcpiStatusSchedule",
                                      "OcpiSession", "OcpiChargingPreferences",
                                      "OcpiImage" }) =>
        \A f \in OptionalFields(target) : ~Supplied(f) => f \notin DOMAIN wire.v

\* C11 (as claimed): an object is immutable after validation: whatever the
\* caller does with it, it keeps the field values validation gave it, and
\* so it still satisfies the constraints of its class.
C11_ObjectsImmutable ==
    (Validated /\ result.ok) =>
        /\ result.obj = model_validate(target, payload).obj
        /\ model_validate(target, model_dump_json(result.obj, FALSE)).ok

(***************************************************************************)
(* The clock.  datetime.now advances by half a second at a time, at any    *)
(* moment, while envelopes are received and validated.                     *)
(***************************************************************************)
MaxClock == 3

Tick ==
    /\ now < MaxClock
    /\ now' = now + 1
    /\ UNCHANGED <<phase, target, payload, edits, result, unset, wire>>

ClockNext ==
    \/ Tick
    \/ \E t \in ResponseTypes : Receive(t)
    \/ \E f \in FieldNames : Omit(f)
    \/ \E f \in FieldNames : Probe(f)
    \/ Validate
    \/ Discard

ClockSpec == Init /\ [][ClockNext]_vars

\* C12: an envelope constructed without a timestamp gets the UTC instant
\* of that construction, truncated to whole seconds and carrying the UTC
\* offset (read from the clock at each construction, not once); an
\* envelope constructed with a timestamp keeps the caller's value and the
\* clock is not consulted.
C12_TimestampDefaultsToNow ==
    [][ (phase = "received" /\ phase' = "validated" /\ target \in ResponseTypes /\ result'.ok) =>
          IF "timestamp" \in DOMAIN payload.v
          THEN /\ result'.obj.fields.timestamp = ParseDatetime(payload.v.timestamp.v).val
               /\ "timestamp" \in result'.obj.fields_set
          ELSE /\ result'.obj.fields.timestamp.t = ClockTexts[(now \div 2) + 1]
               /\ result'.obj.fields.timestamp.us = 0
               /\ result'.obj.fields.timestamp.tz = "UTC"
               /\ "timestamp" \notin result'.obj.fields_set ]_vars

\* an envelope without a timestamp was constructed after the clock had
\* moved on: it carries the later second, with no sub-second part
C12_Witness ==
    /\ phase = "validated"
    /\ target = "OcpiBaseResponse"
    /\ ~Supplied("timestamp")
    /\ result.ok
    /\ now = 3
    /\ result.obj.fields.timestamp = PyDatetime(ClockTexts[2], 0, "UTC")

\* the fixed-width codes and their widths
FixedWidth ==
    { <<"OcpiCdrToken", "country_code", 2>>, <<"OcpiCdrToken", "party_id", 3>>,
      <<"OcpiSession", "country_code", 2>>, <<"OcpiSession", "party_id", 3>> }

IsText(x) == x.j = "str"

\* C13: country_code is accepted if and only if it has exactly 2
\* characters and party_id if and only if it has exactly 3, in OcpiCdrToken
\* and in OcpiSession (and in the cdr_token a Session carries); shorter
\* values, the empty string included, and longer values are refused.
C13_OwnerCodesFixedWidth ==
    phase = "validated" =>
        /\ \A w \in FixedWidth :
              (target = w[1] /\ Supplied(w[2]) /\ IsText(payload.v[w[2]])) =>
                  /\ (ErrorsAt(w[2]) = {}) <=> (Len(payload.v[w[2]].v) = w[3])
                  /\ Len(payload.v[w[2]].v) < w[3] =>
                        ErrorsAt(w[2]) = { [loc |-> <<w[2]>>, type |-> "string_too_short"] }
                  /\ Len(payload.v[w[2]].v) > w[3] =>
                        ErrorsAt(w[2]) = { [loc |-> <<w[2]>>, type |-> "string_too_long"] }
        /\ (target = "OcpiSession" /\ Supplied("cdr_token") /\ payload.v.cdr_token.j = "obj") =>
              \A w \in { <<"country_code", 2>>, <<"party_id", 3>> } :
                  (w[1] \in DOMAIN payload.v.cdr_token.v /\ IsText(payload.v.cdr_token.v[w[1]])) =>
                      ((\E e \in result.errors : e.loc = <<"cdr_token", w[1]>>)
                          <=> Len(payload.v.cdr_token.v[w[1]].v) # w[2])

\* a one-character country_code was refused as too short
C13_Witness ==
    /\ phase = "validated"
    /\ target = "OcpiCdrToken"
    /\ Supplied("country_code")
    /\ payload.v.country_code = Str("x")
    /\ result.errors = { [loc |-> <<"country_code">>, type |-> "string_too_short"] }

\* C14 (as claimed): OcpiDisplayText.language is accepted only with
\* exactly 2 characters and OcpiSession.currency only with exactly 3; a
\* shorter value, such as the empty string, is refused.
C14_LanguageAndCurrencyExact ==
    phase = "validated" =>
        \A w \in { <<"OcpiDisplayText", "language", 2>>, <<"OcpiSession", "currency", 3>> } :
            (target = w[1] /\ Supplied(w[2]) /\ IsText(payload.v[w[2]])) =>
                ((ErrorsAt(w[2]) = {}) => (Len(payload.v[w[2]].v) = w[3]))

\* C15: OcpiGeoLocation accepts a latitude text if and only if it has at
\* most 10 characters and a longitude text if and only if it has at most
\* 11; an accepted text is stored as it is and encoded as it is, never
\* converted to a number.
C15_CoordinatesAreBoundedText ==
    (Validated /\ target = "OcpiGeoLocation") =>
        \A w \in { <<"latitude", 10>>, <<"longitude", 11>> } :
            Supplied(w[1]) =>
                /\ IsText(payload.v[w[1]]) =>
                      ((ErrorsAt(w[1]) = {}) <=> (Len(payload.v[w[1]].v) <= w[2]))
                /\ ~IsText(payload.v[w[1]]) => ErrorsAt(w[1]) # {}
                /\ result.ok => result.obj.fields[w[1]] = PyStr(payload.v[w[1]].v)
                /\ phase = "dumped" => wire.v[w[1]] = payload.v[w[1]]

\* the 9-character latitude of the example went through unchanged
C15_Witness ==
    /\ phase = "dumped"
    /\ target = "OcpiGeoLocation"
    /\ Supplied("latitude")
    /\ payload.v.latitude = Str("51.047599")
    /\ wire.v.latitude = Str("51.047599")

\* an 11-character latitude was refused
C15_TooLong ==
    /\ phase = "validated"
    /\ target = "OcpiGeoLocation"
    /\ Supplied("latitude")
    /\ payload.v.latitude = Str("xxxxxxxxxxx")
    /\ ErrorsAt("latitude") = { [loc |-> <<"latitude">>, type |-> "string_too_long"] }

Placeholder == Str("#NA")

\* the payload uses the placeholder for its EVSE or its connector
UsesPlaceholder ==
    \E f \in { "evse_uid", "connector_id" } : Supplied(f) /\ payload.v[f] = Placeholder

\* C16: "#NA" is a legitimate evse_uid and connector_id: it is never the
\* cause of a violation, and what validation says about a Session that
\* uses it does not depend on the status that goes with it: the same
\* payload with any other declared status (PENDING, COMPLETED, ...) gets
\* the same verdict and the same violations.
C16_PlaceholderIndependentOfStatus ==
    (phase = "validated" /\ target = "OcpiSession" /\ UsesPlaceholder) =>
        /\ \A f \in { "evse_uid", "connector_id" } :
              (Supplied(f) /\ payload.v[f] = Placeholder) => ErrorsAt(f) = {}
        /\ (Supplied("status") /\ Declared(payload.v.status, OcpiSessionStatusEnum)) =>
              \A s \in OcpiSessionStatusEnum :
                  LET other == model_validate(target, PutKey(payload, "status", Str(s)))
                  IN  /\ other.ok = result.ok
                      /\ other.errors = result.errors

\* a PENDING Session whose evse_uid is "#NA" was accepted
C16_Witness ==
    /\ phase = "validated"
    /\ target = "OcpiSession"
    /\ Supplied("evse_uid")
    /\ Supplied("status")
    /\ payload.v.evse_uid = Placeholder
    /\ payload.v.status = Str("PENDING")
    /\ result.ok

\* C17 (as claimed): OcpiConnector accepts max_voltage and max_amperage
\* only when they are non-negative integers: a negative value is refused
\* with a violation for that field, zero and positive ones are accepted.
C17_VoltageAndAmperageNonNegative ==
    (phase = "validated" /\ target = "OcpiConnector") =>
        \A f \in { "max_voltage", "max_amperage" } :
            (Supplied(f) /\ payload.v[f].j = "int") =>
                ((ErrorsAt(f) = {}) <=> (payload.v[f].v >= 0))

\* the URL-typed fields
UrlFields ==
    { <<"OcpiImage", "url">>, <<"OcpiImage", "thumbnail">>,
      <<"OcpiConnector", "terms_and_conditions">>,
      <<"OcpiVersion", "url">>, <<"OcpiEndpoint", "url">> }

\* texts that are no absolute URL: the empty string, a bare path and
\* arbitrary text have no scheme; a scheme followed by "://" and no host
\* has no authority
MalformedUrls ==
    { "", "/ocpi/cpo/2.2/", "example.com" } \cup
    { UrlText(h[1], "", h[2]) : h \in Schemes \X { "", "/" } }

\* C18 (as claimed): every URL-typed field (Image.url, Image.thumbnail,
\* Connector.terms_and_conditions, Version.url, Endpoint.url) refuses a
\* text that lacks a scheme or an authority, such as the empty string, a
\* bare path or arbitrary text.
C18_UrlFieldsNeedAbsoluteUrl ==
    phase = "validated" =>
        \A uf \in UrlFields :
            (target = uf[1] /\ Supplied(uf[2]) /\ IsText(payload.v[uf[2]])
                /\ payload.v[uf[2]].v \in MalformedUrls) =>
                    ErrorsAt(uf[2]) # {}

=============================================================================
